---- MODULE Spec2Model ----
(***************************************************************************)
(* Model of the calculation engine of the finance calculator               *)
(* (src/components/calculator/FinanceInputForm.tsx, lines 702-1136).       *)
(*                                                                         *)
(* JavaScript numbers are modelled by the values of Num: exact rationals,  *)
(* NaN, +Infinity, -Infinity, `undefined' (an absent optional field) and   *)
(* "huge": a finite double of magnitude 2^30 or more, whose value is not   *)
(* tracked; it arises from powers 2^e with 30 <= e < 1024 and is only      *)
(* compared with the amounts of money of the model, all far below 2^30.    *)
(* Arithmetic follows IEEE 754 on the special values (0/0 = NaN,           *)
(* x/0 = Infinity, 0 * Infinity = NaN, every comparison with NaN is false) *)
(* and is exact on the rationals, so rounding of doubles is not modelled.  *)
(***************************************************************************)
EXTENDS Integers, Sequences, FiniteSets, TLC

----------------------------------------------------------------------------
(* JavaScript numbers *)

Fin(n, d) == [k |-> "fin", n |-> n, d |-> d]
NaN == [k |-> "nan", n |-> 0, d |-> 1]
Infinity == [k |-> "inf", n |-> 1, d |-> 1]
NegInfinity == [k |-> "inf", n |-> -1, d |-> 1]
Huge == [k |-> "huge", n |-> 1, d |-> 1]
undefined == [k |-> "undef", n |-> 0, d |-> 1]

N(i) == Fin(i, 1)
Zero == N(0)
One == N(1)

Abs(i) == IF i < 0 THEN -i ELSE i

RECURSIVE GCD(_, _)
GCD(a, b) == IF b = 0 THEN a ELSE GCD(b, a % b)

Norm(n, d) ==
  LET g == GCD(Abs(n), d) IN Fin(n \div g, d \div g)

Sign(a) == IF a.n > 0 THEN 1 ELSE IF a.n < 0 THEN -1 ELSE 0

IsFinite(a) == a.k = "fin" \/ a.k = "huge"
IsInteger(a) == a.k = "fin" /\ a.d = 1

Neg(a) == IF a.k = "nan" THEN NaN ELSE [a EXCEPT !.n = -a.n]

\* x * y stays within the exact range
Fits(x, y) == x = 0 \/ y = 0 \/ Abs(x) <= 1073741823 \div Abs(y)

Add(a, b) ==
  IF a.k = "nan" \/ b.k = "nan" THEN NaN
  ELSE IF a.k = "inf" THEN (IF b.k = "inf" /\ b.n # a.n THEN NaN ELSE a)
  ELSE IF b.k = "inf" THEN b
  ELSE IF a.k = "huge" THEN a
  ELSE IF b.k = "huge" THEN b
  ELSE LET g == GCD(a.d, b.d)
       IN  IF ~Fits(a.n, b.d \div g) THEN [Huge EXCEPT !.n = Sign(a)]
           ELSE IF ~Fits(b.n, a.d \div g) THEN [Huge EXCEPT !.n = Sign(b)]
           ELSE Norm(a.n * (b.d \div g) + b.n * (a.d \div g), (a.d \div g) * b.d)

Sub(a, b) == Add(a, Neg(b))

Mul(a, b) ==
  IF a.k = "nan" \/ b.k = "nan" THEN NaN
  ELSE IF a.k = "fin" /\ b.k = "fin"
       THEN LET g1 == GCD(Abs(a.n), b.d)
                g2 == GCD(Abs(b.n), a.d)
            IN  IF Fits(a.n \div g1, b.n \div g2)
                THEN Norm((a.n \div g1) * (b.n \div g2), (a.d \div g2) * (b.d \div g1))
                ELSE [Huge EXCEPT !.n = Sign(a) * Sign(b)]
  ELSE IF Sign(a) = 0 \/ Sign(b) = 0
       THEN (IF a.k = "inf" \/ b.k = "inf" THEN NaN ELSE Zero)
  ELSE IF a.k = "inf" \/ b.k = "inf"
       THEN (IF Sign(a) = Sign(b) THEN Infinity ELSE NegInfinity)
  ELSE [Huge EXCEPT !.n = Sign(a) * Sign(b)]

Div(a, b) ==
  IF a.k = "nan" \/ b.k = "nan" THEN NaN
  ELSE IF b.k = "fin" /\ b.n = 0
       THEN (IF Sign(a) = 0 THEN NaN
             ELSE IF Sign(a) > 0 THEN Infinity ELSE NegInfinity)
  ELSE IF b.k = "inf"
       THEN (IF a.k = "inf" THEN NaN ELSE Zero)
  ELSE IF a.k = "inf"
       THEN (IF Sign(a) = Sign(b) THEN Infinity ELSE NegInfinity)
  ELSE IF a.k = "fin" /\ b.k = "fin"
       THEN Mul(a, IF b.n > 0 THEN Fin(b.d, b.n) ELSE Fin(-b.d, -b.n))
  ELSE IF a.k = "huge" /\ b.k = "fin"
       THEN [Huge EXCEPT !.n = Sign(a) * Sign(b)]
  ELSE IF a.k = "fin" /\ Sign(a) = 0 THEN Zero
  ELSE NaN

RECURSIVE FracGe(_, _, _, _)
\* n1 / d1 >= n2 / d2 for d1, d2 > 0, by comparing the continued fractions
FracGe(n1, d1, n2, d2) ==
  IF n1 \div d1 # n2 \div d2 THEN n1 \div d1 > n2 \div d2
  ELSE IF n2 % d2 = 0 THEN TRUE
  ELSE IF n1 % d1 = 0 THEN FALSE
  ELSE FracGe(d2, n2 % d2, d1, n1 % d1)

\* a >= b; both operands huge with the same sign does not occur in the model
Ge(a, b) ==
  IF a.k = "nan" \/ b.k = "nan" THEN FALSE
  ELSE IF a.k = "fin" /\ b.k = "fin"
       THEN (IF a.d = b.d THEN a.n >= b.n
             ELSE IF Fits(a.n, b.d) /\ Fits(b.n, a.d) THEN a.n * b.d >= b.n * a.d
             ELSE FracGe(a.n, a.d, b.n, b.d))
  ELSE IF a.k = "inf" THEN a.n > 0 \/ (b.k = "inf" /\ b.n < 0)
  ELSE IF b.k = "inf" THEN b.n < 0
  ELSE IF a.k = "huge" THEN a.n > 0
  ELSE b.n < 0

Gt(a, b) == Ge(a, b) /\ a # b
Le(a, b) == Ge(b, a)

\* x || 0 on an optional numeric field
OrZero(x) == IF x.k = "undef" \/ x.k = "nan" \/ x = Zero THEN Zero ELSE x

RECURSIVE IntPow(_, _)
\* b^e, or -1 when it is 2^30 or more
IntPow(b, e) ==
  IF e = 0 THEN 1
  ELSE IF b >= 2 /\ e > 30 THEN -1
  ELSE LET p == IntPow(b, e - 1)
       IN  IF p < 0 \/ (b > 0 /\ p > 1073741823 \div b) THEN -1 ELSE p * b

RECURSIVE ILog2(_)
\* floor(log2(i)) for i >= 1
ILog2(i) == IF i < 2 THEN 0 ELSE 1 + ILog2(i \div 2)

\* Math.pow(b, e) for a non-negative base and an integer exponent e >= 0.
\* A power of an integer base >= 2 is exact below 2^30, Infinity where the
\* double overflows (2^1024 and above) and huge in between.
Pow(b, e) ==
  IF e = 0 THEN One
  ELSE IF b.k # "fin" THEN b
  ELSE IF b.n = 0 \/ b = One THEN b
  ELSE IF IntPow(b.n, e) >= 0 /\ IntPow(b.d, e) >= 0
       THEN Fin(IntPow(b.n, e), IntPow(b.d, e))
  ELSE IF b.d = 1 /\ e * ILog2(b.n) >= 1024 THEN Infinity
  ELSE Huge

\* Math.pow(x, 1 / 12) for x a twelfth power of 0, 1 or 2
Root12(x) == N(CHOOSE g \in 0..2 : IntPow(g, 12) = x.n)

\* Math.round: the nearest integer, a half rounding up
Round(a) ==
  IF a.k = "fin"
  THEN N((a.n \div a.d) + (IF 2 * (a.n % a.d) >= a.d THEN 1 ELSE 0))
  ELSE a

\* Math.ceil
Ceil(a) == IF a.k = "fin" THEN N(-((-a.n) \div a.d)) ELSE a

Max(i, j) == IF i >= j THEN i ELSE j

Floor12(a) == IF a.k = "fin" THEN N(a.n \div 12) ELSE a
Mod12(a) == IF a.k = "fin" THEN N(a.n % 12) ELSE NaN

----------------------------------------------------------------------------
(* Compounding primitives *)

calculateFutureValue(principal, annualRate, years) ==
  Mul(principal, Pow(Add(One, annualRate), years))

\* the amount left as it is, with no inflation applied
calculateInflationAdjustedAmount_Flat(amount, inflationRate, years) == amount

calculateInflationAdjustedAmount(amount, inflationRate, years) ==
  Mul(amount, Pow(Add(One, inflationRate), years))

calculateRequiredMonthlySavings(targetAmount, currentSavings, annualRate, years) ==
  LET futureValueOfSavings == calculateFutureValue(currentSavings, annualRate, years)
      amountNeeded == Sub(targetAmount, futureValueOfSavings)
      monthlyRate == Div(annualRate, N(12))
      totalMonths == years * 12
      denominator == Sub(Pow(Add(One, monthlyRate), totalMonths), One)
  IN  IF Le(amountNeeded, Zero) THEN Zero
      ELSE IF denominator = Zero THEN Div(amountNeeded, N(totalMonths))
      ELSE Div(Mul(amountNeeded, monthlyRate), denominator)

----------------------------------------------------------------------------
(* Mode strategies *)

MaxMonths == 1200

\* a || b taken as a, whatever a is
OrElse_First(a, b) == a

\* a || b on numbers
OrElse(a, b) == IF a.k = "undef" \/ a.k = "nan" \/ a = Zero THEN b ELSE a

\* a result record that never carries baseFINumber
Results_DropsBase(req, fvc, adj, yrs, mos, tot, calc, base, ss, si, tfs, tfi, tac) ==
  [requiredMonthlySavings |-> req,
   futureValueOfCurrentSavings |-> fvc,
   inflationAdjustedFINumber |-> adj,
   yearsToFI |-> yrs,
   monthsToFI |-> mos,
   totalMonthsToFI |-> tot,
   calculatedFINumber |-> calc,
   baseFINumber |-> undefined,
   suggestedMonthlySavings |-> ss,
   suggestedMonthlyInvestment |-> si,
   totalFutureSavings |-> tfs,
   totalFutureInvestment |-> tfi,
   targetAtCompletion |-> tac]

Results(req, fvc, adj, yrs, mos, tot, calc, base, ss, si, tfs, tfi, tac) ==
  [requiredMonthlySavings |-> req,
   futureValueOfCurrentSavings |-> fvc,
   inflationAdjustedFINumber |-> adj,
   yearsToFI |-> yrs,
   monthsToFI |-> mos,
   totalMonthsToFI |-> tot,
   calculatedFINumber |-> calc,
   baseFINumber |-> base,
   suggestedMonthlySavings |-> ss,
   suggestedMonthlyInvestment |-> si,
   totalFutureSavings |-> tfs,
   totalFutureInvestment |-> tfi,
   targetAtCompletion |-> tac]

\* (Math.pow(1 + rate, months) - 1) / rate, as lines 871-872 and 947-948 form it
fvFactor(rate, months) == Div(Sub(Pow(Add(One, rate), months), One), rate)

\* an even split in place of 30%
SavingsShare_Half == Fin(1, 2)

\* the literals 0.3 and 0.7 of lines 874-879 and 950-960
SavingsShare == Fin(3, 10)
InvestmentShare == Fin(7, 10)

\* the target inflated to the horizon, as time-based mode does
goalInflationAdjustedFINumber_Inflated(inputs) ==
  calculateInflationAdjustedAmount(inputs.targetFINumber, inputs.inflationRate,
                                   inputs.timeHorizon)

\* line 855: the target of goal-based mode
goalInflationAdjustedFINumber(inputs) == inputs.targetFINumber

\* goalYearsToFI with amountNeeded < 0 in place of amountNeeded <= 0
goalYearsToFI_Strict(amountNeeded, timeHorizon) ==
  IF Le(amountNeeded, Zero) /\ amountNeeded # Zero THEN Zero ELSE N(timeHorizon)

\* line 890
goalYearsToFI(amountNeeded, timeHorizon) ==
  IF Le(amountNeeded, Zero) THEN Zero ELSE N(timeHorizon)

\* the goal-based branch of calculateFinancialIndependence
calculateGoalBased(inputs) ==
  LET futureValueOfCash ==
        calculateFutureValue(inputs.currentSavings, OrZero(inputs.savingsInterestRate),
                             inputs.timeHorizon)
      futureValueOfInvestments ==
        calculateFutureValue(OrZero(inputs.currentInvestments), inputs.annualReturn,
                             inputs.timeHorizon)
      futureValueOfCurrentSavings == Add(futureValueOfCash, futureValueOfInvestments)
      inflationAdjustedFINumber == goalInflationAdjustedFINumber(inputs)
      amountNeeded == Sub(inflationAdjustedFINumber, futureValueOfCurrentSavings)
      savingsRate == Div(OrZero(inputs.savingsInterestRate), N(12))
      investmentRate == Div(inputs.annualReturn, N(12))
      months == inputs.timeHorizon * 12
      fvFactorSavings == fvFactor(savingsRate, months)
      fvFactorInvestment == fvFactor(investmentRate, months)
      combinedFactor == Add(Mul(SavingsShare, fvFactorSavings),
                            Mul(InvestmentShare, fvFactorInvestment))
      needed == Gt(amountNeeded, Zero)
      requiredMonthlyTotal == IF needed THEN Div(amountNeeded, combinedFactor) ELSE Zero
      suggestedMonthlySavings ==
        IF needed THEN Mul(requiredMonthlyTotal, SavingsShare) ELSE Zero
      suggestedMonthlyInvestment ==
        IF needed THEN Mul(requiredMonthlyTotal, InvestmentShare) ELSE Zero
      totalFutureSavings ==
        IF needed THEN Add(futureValueOfCash, Mul(suggestedMonthlySavings, fvFactorSavings))
        ELSE futureValueOfCash
      totalFutureInvestment ==
        IF needed
        THEN Add(futureValueOfInvestments, Mul(suggestedMonthlyInvestment, fvFactorInvestment))
        ELSE futureValueOfInvestments
      yearsToFI == goalYearsToFI(amountNeeded, inputs.timeHorizon)
  IN  Results(requiredMonthlyTotal, futureValueOfCurrentSavings, inflationAdjustedFINumber,
              yearsToFI, Zero, Mul(yearsToFI, N(12)), undefined, undefined,
              suggestedMonthlySavings, suggestedMonthlyInvestment,
              totalFutureSavings, totalFutureInvestment, undefined)

calculateTimeBasedStrategy(inputs) ==
  LET baseFINumber == Mul(Mul(inputs.monthlyExpenses, N(12)), N(25))
      futureFINumber ==
        calculateInflationAdjustedAmount(baseFINumber, inputs.inflationRate, inputs.timeHorizon)
      futureValueOfCash ==
        calculateFutureValue(inputs.currentSavings, OrZero(inputs.savingsInterestRate),
                             inputs.timeHorizon)
      futureValueOfInvestments ==
        calculateFutureValue(OrZero(inputs.currentInvestments), inputs.annualReturn,
                             inputs.timeHorizon)
      futureValueOfCurrentAssets == Add(futureValueOfCash, futureValueOfInvestments)
      gap == Sub(futureFINumber, futureValueOfCurrentAssets)
      savingsRate == Div(OrZero(inputs.savingsInterestRate), N(12))
      investmentRate == Div(inputs.annualReturn, N(12))
      months == inputs.timeHorizon * 12
      fvFactorSavings == fvFactor(savingsRate, months)
      fvFactorInvestment == fvFactor(investmentRate, months)
      combinedFactor == Add(Mul(SavingsShare, fvFactorSavings),
                            Mul(InvestmentShare, fvFactorInvestment))
      needed == Gt(gap, Zero)
      requiredMonthlySavings == IF needed THEN Div(gap, combinedFactor) ELSE Zero
      totalFutureSavings ==
        IF needed
        THEN Add(futureValueOfCash,
                 Mul(Mul(requiredMonthlySavings, SavingsShare), fvFactorSavings))
        ELSE futureValueOfCash
      totalFutureInvestment ==
        IF needed
        THEN Add(futureValueOfInvestments,
                 Mul(Mul(requiredMonthlySavings, InvestmentShare), fvFactorInvestment))
        ELSE futureValueOfInvestments
      suggestedMonthlyInvestment == Mul(requiredMonthlySavings, InvestmentShare)
      suggestedMonthlySavings == Mul(requiredMonthlySavings, SavingsShare)
  IN  Results(requiredMonthlySavings, futureValueOfCurrentAssets, futureFINumber,
              N(inputs.timeHorizon), Zero, N(inputs.timeHorizon * 12),
              futureFINumber, baseFINumber,
              suggestedMonthlySavings, suggestedMonthlyInvestment,
              totalFutureSavings, totalFutureInvestment, undefined)

\* the closure projectPortfolio of calculateContributionTimeline
projectPortfolio(inputs, months) ==
  LET monthlySavingsContribution == OrZero(inputs.monthlySavings)
      monthlyInvestmentContribution == OrZero(inputs.monthlyInvestment)
      monthlySavingsRate == Div(OrZero(inputs.savingsInterestRate), N(12))
      monthlyInvestmentRate == Div(inputs.annualReturn, N(12))
      monthlyInflationRate == Sub(Root12(Add(One, inputs.inflationRate)), One)
      baseTarget == OrElse(inputs.targetFINumber,
                           Mul(Mul(inputs.monthlyExpenses, N(12)), N(25)))
      targetAtMonth == Mul(baseTarget, Pow(Add(One, monthlyInflationRate), months))
      savingsFutureValue ==
        IF monthlySavingsRate = Zero
        THEN Add(inputs.currentSavings, Mul(monthlySavingsContribution, N(months)))
        ELSE Add(Mul(inputs.currentSavings, Pow(Add(One, monthlySavingsRate), months)),
                 Mul(monthlySavingsContribution, fvFactor(monthlySavingsRate, months)))
      investmentsFutureValue ==
        IF monthlyInvestmentRate = Zero
        THEN Add(OrZero(inputs.currentInvestments),
                 Mul(monthlyInvestmentContribution, N(months)))
        ELSE Add(Mul(OrZero(inputs.currentInvestments),
                     Pow(Add(One, monthlyInvestmentRate), months)),
                 Mul(monthlyInvestmentContribution, fvFactor(monthlyInvestmentRate, months)))
  IN  [total |-> Add(savingsFutureValue, investmentsFutureValue),
       target |-> targetAtMonth,
       savingsFutureValue |-> savingsFutureValue,
       investmentsFutureValue |-> investmentsFutureValue,
       baseTarget |-> baseTarget]

----------------------------------------------------------------------------
(* calculateTimelineToFI *)

\* Number of months in which the slow rate doubles an amount
DoublingMonths == 700

\* An annual rate r between 0 and 1 whose monthly factor 1 + r/12 is the
\* DoublingMonths-th root of 2, and its monthly rate r/12. They are symbols:
\* only the closed form of calculateTimelineToFI takes them.
SlowRate == [k |-> "sym", n |-> DoublingMonths, d |-> 1]
SlowMonthlyRate == [k |-> "sym", n |-> DoublingMonths, d |-> 12]

MonthlyRate(annualRate) ==
  IF annualRate = SlowRate THEN SlowMonthlyRate ELSE Div(annualRate, N(12))

\* Math.log(targetAmount / currentSavings) / Math.log(1 + monthlyRate) for
\* targetAmount > currentSavings >= 0 and a monthly factor 2^(1/K): the real
\* number K * log2(ratio), as its floor and whether it has a fractional part.
\* For K > 1 the ratio is a power of 2.
LogQuotient(currentSavings, targetAmount, monthlyRate) ==
  LET ratio == Div(targetAmount, currentSavings)
      K == IF monthlyRate.k = "sym" THEN monthlyRate.n ELSE 1
      j == ILog2(ratio.n \div ratio.d)
  IN  IF ratio.k = "fin"
      THEN [k |-> "fin", whole |-> K * j, frac |-> IntPow(2, j) * ratio.d # ratio.n]
      ELSE [k |-> ratio.k, whole |-> 0, frac |-> FALSE]

TimelineReturn(years, months, totalMonths) ==
  [years |-> years, months |-> months, totalMonths |-> totalMonths]

\* closedFormTimeline taking the floor of the logarithmic solution
closedFormTimeline_Floor(currentSavings, targetAmount, monthlyRate) ==
  IF Ge(currentSavings, targetAmount) THEN TimelineReturn(Zero, Zero, Zero)
  ELSE IF monthlyRate = Zero THEN TimelineReturn(Infinity, Infinity, Infinity)
  ELSE LET months == LogQuotient(currentSavings, targetAmount, monthlyRate)
       IN  IF months.k = "fin"
           THEN TimelineReturn(N(months.whole \div 12), N(months.whole % 12),
                               N(months.whole))
           ELSE IF months.k = "inf" THEN TimelineReturn(Infinity, NaN, Infinity)
           ELSE TimelineReturn(NaN, NaN, NaN)

\* lines 780-793: the return value when monthlySavings === 0
closedFormTimeline(currentSavings, targetAmount, monthlyRate) ==
  IF Ge(currentSavings, targetAmount) THEN TimelineReturn(Zero, Zero, Zero)
  ELSE IF monthlyRate = Zero THEN TimelineReturn(Infinity, Infinity, Infinity)
  ELSE LET months == LogQuotient(currentSavings, targetAmount, monthlyRate)
           up == IF months.frac THEN 1 ELSE 0
       IN  IF months.k = "fin"
           THEN TimelineReturn(N(months.whole \div 12),
                               N((months.whole % 12) + up),
                               N(months.whole + up))
           ELSE IF months.k = "inf" THEN TimelineReturn(Infinity, NaN, Infinity)
           ELSE TimelineReturn(NaN, NaN, NaN)

\* lines 802-804: the value probed at month mid
timelineFutureValue(args, mid) ==
  LET monthlyRate == MonthlyRate(args.annualRate)
  IN  Add(Mul(args.currentSavings, Pow(Add(One, monthlyRate), mid)),
          Mul(args.monthlySavings, fvFactor(monthlyRate, mid)))

----------------------------------------------------------------------------
(* Inputs of the model *)

\* largest monthly contribution of an input record
MaxContribution == 2

Nums(S) == {N(i) : i \in S}

Modes == {"goal-based", "time-based", "contribution-based"}

\* Rates: 0 and 12 (monthly rate 1) compound exactly, and inflation 4095 has
\* the monthly-equivalent rate 1. A contribution-based input whose assets and
\* target would both outgrow the exact range (inflation and a pool's rate
\* both non-zero) is left out.
GoalInputs ==
  [currentIncome : Nums({0}),
   monthlyExpenses : Nums({1}),
   currentSavings : Nums({0, 3}),
   currentInvestments : {undefined} \cup Nums({0, 2}),
   targetFINumber : Nums({0, 5, 120, 1000}) \cup {Fin(11, 2)},
   timeHorizon : {1, 2},
   annualReturn : Nums({0, 12}),
   inflationRate : Nums({0, 1}),
   monthlySavings : {undefined},
   monthlyInvestment : {undefined},
   savingsInterestRate : {undefined} \cup Nums({0, 12})]

TimeInputs ==
  [currentIncome : Nums({0}),
   monthlyExpenses : Nums({0, 1}),
   currentSavings : Nums({0, 3}),
   currentInvestments : {undefined} \cup Nums({0, 2}),
   targetFINumber : Nums({5}),
   timeHorizon : {1, 2},
   annualReturn : Nums({0, 12}),
   inflationRate : Nums({0, 1}),
   monthlySavings : {undefined},
   monthlyInvestment : {undefined},
   savingsInterestRate : {undefined} \cup Nums({0, 12})]

ContributionInputs ==
  {i \in [currentIncome : Nums({0}),
          monthlyExpenses : Nums({0, 1}),
          currentSavings : Nums({0, 3}),
          currentInvestments : {undefined} \cup Nums({2}),
          targetFINumber : Nums({0, 1, 7, 1200, 2401}),
          timeHorizon : {1},
          annualReturn : Nums({0, 12}),
          inflationRate : Nums({0, 4095}),
          monthlySavings : {undefined} \cup Nums(1..MaxContribution),
          monthlyInvestment : Nums({0, 1}),
          savingsInterestRate : {undefined} \cup Nums({12})] :
     /\ i.inflationRate # Zero =>
          i.annualReturn = Zero /\ i.savingsInterestRate = undefined
     /\ i.savingsInterestRate # undefined => i.annualReturn = Zero
     /\ i.targetFINumber # Zero => i.monthlyExpenses = One}

InputsOf(m) ==
  IF m = "goal-based" THEN GoalInputs
  ELSE IF m = "time-based" THEN TimeInputs
  ELSE ContributionInputs

NoInputs ==
  [currentIncome |-> Zero, monthlyExpenses |-> Zero, currentSavings |-> Zero,
   currentInvestments |-> undefined, targetFINumber |-> Zero, timeHorizon |-> 1,
   annualReturn |-> Zero, inflationRate |-> Zero, monthlySavings |-> undefined,
   monthlyInvestment |-> undefined, savingsInterestRate |-> undefined]

TimelineArgs ==
  [currentSavings : Nums({0, 1, 3}), monthlySavings : Nums(0..MaxContribution),
   targetAmount : Nums({1, 2, 4, 5, 3000}), annualRate : Nums({0, 12})]
  \cup [currentSavings : Nums({1, 2}), monthlySavings : {Zero},
        targetAmount : Nums({1, 2, 4}), annualRate : {SlowRate}]

NoArgs ==
  [currentSavings |-> Zero, monthlySavings |-> Zero, targetAmount |-> Zero,
   annualRate |-> Zero]

NoResults ==
  Results(undefined, undefined, undefined, undefined, undefined, undefined, undefined,
          undefined, undefined, undefined, undefined, undefined, undefined)

NoReturn == TimelineReturn(undefined, undefined, undefined)

\* months over which the model follows a pool that shrinks by 1/12 a month
ProjectionMonths == 4

\* an annual rate of -1 takes 1/12 off a pool every month
ShrinkingRate == N(-1)

\* Inputs whose projection is followed month by month: the rates 0 and 12
\* with every combination of pools and contributions, and the rate -1 on a
\* single pool.
ProjectionInputs ==
  [currentIncome : Nums({0}),
   monthlyExpenses : Nums({1}),
   currentSavings : Nums({0, 3}),
   currentInvestments : {undefined} \cup Nums({2}),
   targetFINumber : Nums({7}),
   timeHorizon : {1},
   annualReturn : Nums({0, 12}),
   inflationRate : Nums({0}),
   monthlySavings : {undefined} \cup Nums({1}),
   monthlyInvestment : Nums({1}),
   savingsInterestRate : {undefined} \cup Nums({12})]
  \cup
  [currentIncome : Nums({0}),
   monthlyExpenses : Nums({1}),
   currentSavings : Nums({3}),
   currentInvestments : {undefined},
   targetFINumber : Nums({7}),
   timeHorizon : {1},
   annualReturn : Nums({0}),
   inflationRate : Nums({0}),
   monthlySavings : {undefined} \cup Nums({1}),
   monthlyInvestment : Nums({0}),
   savingsInterestRate : {ShrinkingRate}]

NoPosition ==
  [total |-> undefined, target |-> undefined, savingsFutureValue |-> undefined,
   investmentsFutureValue |-> undefined, baseTarget |-> undefined]

\* part_003 lines 30-80: the views of the page and the mode of each
Views == {"goal", "timeline", "contribution", "enough", "about"}

ModeOf(view) ==
  IF view = "goal" THEN "goal-based"
  ELSE IF view = "timeline" THEN "time-based"
  ELSE IF view = "contribution" THEN "contribution-based"
  ELSE "none"

\* part_003 lines 82-94, with amounts and rates the model computes exactly:
\* every field is present and both contributions are 0
DEFAULT_DATA ==
  [currentIncome |-> Zero, monthlyExpenses |-> One, currentSavings |-> N(3),
   currentInvestments |-> Zero, targetFINumber |-> N(120), timeHorizon |-> 1,
   annualReturn |-> N(12), inflationRate |-> Zero, monthlySavings |-> Zero,
   monthlyInvestment |-> Zero, savingsInterestRate |-> N(12)]

\* the values the user types into the form
EditedFields == {"targetFINumber"}
EditedValues(field) == Nums({5, 120})

\* no call of calculateFinancialIndependence is remembered
NoCall ==
  [mode |-> "none", inputs |-> NoInputs, results |-> NoResults,
   chartMode |-> "none", chartInputs |-> NoInputs, chart |-> <<>>]

----------------------------------------------------------------------------
(* generateTimelineData *)

\* The optional argument results is NoResults when it is not passed.

\* yearsToProject taking the years of the results in every mode
yearsToProject_FromResults(inputs, mode, results) ==
  IF results # NoResults /\ IsFinite(results.yearsToFI)
  THEN Ceil(results.yearsToFI).n
  ELSE inputs.timeHorizon

\* lines 1104-1109
yearsToProject(inputs, mode, results) ==
  LET projectedYearsFromResults ==
        IF results # NoResults /\ IsFinite(results.yearsToFI)
        THEN Ceil(results.yearsToFI).n
        ELSE inputs.timeHorizon
  IN  IF mode = "contribution-based" /\ results # NoResults
      THEN Max(projectedYearsFromResults, inputs.timeHorizon)
      ELSE inputs.timeHorizon

\* lines 1088-1119: the amount the target series starts from
timelineTargetAmount(inputs, mode, results) ==
  IF mode = "contribution-based"
  THEN OrElse(results.baseFINumber, inputs.targetFINumber)
  ELSE IF mode = "time-based" /\ results # NoResults
  THEN OrElse(results.baseFINumber, Mul(Mul(inputs.monthlyExpenses, N(12)), N(25)))
  ELSE inputs.targetFINumber

\* the year's growth applied in one step, 12 months of simple interest
advanceYear_Annual(pool, monthlyRate, contribution) ==
  Add(Mul(pool, Add(One, Mul(monthlyRate, N(12)))), Mul(contribution, N(12)))

\* lines 1129-1132: the twelve monthly steps of one pool
advanceYear(pool, monthlyRate, contribution) ==
  LET step[month \in 0..12] ==
        IF month = 0 THEN pool
        ELSE Add(Mul(step[month - 1], Add(One, monthlyRate)), contribution)
  IN  step[12]

RECURSIVE timelineSamples(_, _, _, _, _)
\* lines 1121-1133: the samples of the years year..p.yearsToProject
timelineSamples(year, savedValue, investedValue, inputs, p) ==
  IF year > p.yearsToProject THEN <<>>
  ELSE <<[year |-> year,
          savings |-> Round(Add(investedValue, savedValue)),
          target |-> calculateInflationAdjustedAmount(p.targetAmount,
                                                      inputs.inflationRate, year)]>>
       \o timelineSamples(year + 1,
                          advanceYear(savedValue, p.monthlySavingsRate,
                                      p.monthlySavingsContribution),
                          advanceYear(investedValue, p.monthlyInvestmentRate,
                                      p.monthlyInvestmentContribution),
                          inputs, p)

generateTimelineData(inputs, mode, results) ==
  LET monthlyInvestmentRate == Div(inputs.annualReturn, N(12))
      monthlySavingsRate == Div(OrZero(inputs.savingsInterestRate), N(12))
      monthlySavingsContribution ==
        IF mode = "contribution-based" THEN OrZero(inputs.monthlySavings)
        ELSE IF results # NoResults THEN OrZero(results.suggestedMonthlySavings)
        ELSE Zero
      monthlyInvestmentContribution ==
        IF mode = "contribution-based" THEN OrZero(inputs.monthlyInvestment)
        ELSE IF results # NoResults THEN OrZero(results.suggestedMonthlyInvestment)
        ELSE Zero
  IN  timelineSamples(0, inputs.currentSavings, OrZero(inputs.currentInvestments), inputs,
        [yearsToProject |-> yearsToProject(inputs, mode, results),
         targetAmount |-> timelineTargetAmount(inputs, mode, results),
         monthlySavingsRate |-> monthlySavingsRate,
         monthlyInvestmentRate |-> monthlyInvestmentRate,
         monthlySavingsContribution |-> monthlySavingsContribution,
         monthlyInvestmentContribution |-> monthlyInvestmentContribution])

----------------------------------------------------------------------------
(* State *)

VARIABLES
  mode,      \* the mode argument of calculateFinancialIndependence
  inputs,    \* its FinancialInputs argument
  pc,        \* "idle", "call", "search" (in the loop of lines 1034-1045), "done",
             \* "charted" (TimelineChart has drawn the results)
  low, high, result, found,   \* locals of calculateContributionTimeline
  probes,    \* the calls of projectPortfolio its loop has made
  results,   \* the CalculationResults returned
  args,      \* the arguments of calculateTimelineToFI
  tpc,       \* "idle", "call", "search" (in the loop of lines 800-812), "done"
  tlow, thigh, tresult,       \* locals of calculateTimelineToFI
  tprobes,   \* the future values its loop has computed
  ret,       \* the record it returns
  chartResults,   \* the results argument of generateTimelineData
  chart,     \* the samples it returns
  monthsFromNow,  \* the month a projection is followed to
  projected,      \* projectPortfolio at that month
  activeView,     \* the state of the Home page: the view shown
  formData,       \* and the form; its results are the variable results
  remembered      \* an earlier call of calculateFinancialIndependence and its result

vars == <<mode, inputs, pc, low, high, result, found, probes, results,
          args, tpc, tlow, thigh, tresult, tprobes, ret, chartResults, chart,
          monthsFromNow, projected, activeView, formData, remembered>>

engineVars == <<mode, inputs, pc, low, high, result, found, probes, results>>
timelineVars == <<args, tpc, tlow, thigh, tresult, tprobes, ret>>
chartVars == <<chartResults, chart>>
projectionVars == <<monthsFromNow, projected>>
pageVars == <<activeView, formData, remembered>>

\* the locals and the outputs of the engine before any call
Fresh ==
  /\ low = 0 /\ high = 0 /\ result = 0 /\ found = FALSE /\ probes = 0
  /\ results = NoResults
  /\ tlow = 0 /\ thigh = 0 /\ tresult = 0 /\ tprobes = 0
  /\ ret = NoReturn
  /\ chartResults = NoResults /\ chart = <<>>

Init ==
  /\ Fresh
  /\ monthsFromNow = 0 /\ projected = NoPosition
  /\ activeView = "about" /\ formData = DEFAULT_DATA /\ remembered = NoCall
  /\ \/ /\ mode \in Modes
        /\ inputs \in InputsOf(mode)
        /\ pc = "call"
        /\ args = NoArgs /\ tpc = "idle"
     \/ /\ mode = "goal-based" /\ inputs = NoInputs /\ pc = "idle"
        /\ args \in TimelineArgs
        /\ tpc = "call"

----------------------------------------------------------------------------
(* calculateFinancialIndependence *)

GoalBased ==
  /\ pc = "call" /\ mode = "goal-based"
  /\ results' = calculateGoalBased(inputs)
  /\ pc' = "done"
  /\ UNCHANGED <<mode, inputs, low, high, result, found, probes, timelineVars, chartVars, projectionVars, pageVars>>

\* TimeBased handing back a result it returned before, whatever the call
TimeBased_Cached ==
  /\ pc = "call" /\ mode = "time-based"
  /\ results' = IF results # NoResults THEN results ELSE calculateTimeBasedStrategy(inputs)
  /\ pc' = "done"
  /\ UNCHANGED <<mode, inputs, low, high, result, found, probes, timelineVars, chartVars, projectionVars, pageVars>>

TimeBased ==
  /\ pc = "call" /\ mode = "time-based"
  /\ results' = calculateTimeBasedStrategy(inputs)
  /\ pc' = "done"
  /\ UNCHANGED <<mode, inputs, low, high, result, found, probes, timelineVars, chartVars, projectionVars, pageVars>>

\* contributionResults reporting the savings contribution alone as required
contributionResults_SavingsOnly(position, years, months, total) ==
  Results(OrZero(inputs.monthlySavings),
          position.total, position.target, years, months, total,
          undefined, position.baseTarget,
          OrZero(inputs.monthlySavings), OrZero(inputs.monthlyInvestment),
          position.savingsFutureValue, position.investmentsFutureValue,
          position.target)

\* the result record of lines 1013-1026 and 1051-1064
contributionResults(position, years, months, total) ==
  Results(Add(OrZero(inputs.monthlySavings), OrZero(inputs.monthlyInvestment)),
          position.total, position.target, years, months, total,
          undefined, position.baseTarget,
          OrZero(inputs.monthlySavings), OrZero(inputs.monthlyInvestment),
          position.savingsFutureValue, position.investmentsFutureValue,
          position.target)

\* ContributionStart with the ceiling of the search one month short
ContributionStart_ShortCeiling ==
  /\ pc = "call" /\ mode = "contribution-based"
  /\ LET startingPosition == projectPortfolio(inputs, 0)
     IN  IF Ge(startingPosition.total, startingPosition.target)
         THEN /\ results' = contributionResults(startingPosition, Zero, Zero, Zero)
              /\ pc' = "done"
              /\ UNCHANGED <<low, high, result, found, probes>>
         ELSE /\ low' = 0 /\ high' = MaxMonths - 1 /\ result' = MaxMonths - 1
              /\ found' = FALSE /\ probes' = 0
              /\ pc' = "search"
              /\ UNCHANGED results
  /\ UNCHANGED <<mode, inputs, timelineVars, chartVars, projectionVars, pageVars>>

\* lines 979-1032
ContributionStart ==
  /\ pc = "call" /\ mode = "contribution-based"
  /\ LET startingPosition == projectPortfolio(inputs, 0)
     IN  IF Ge(startingPosition.total, startingPosition.target)
         THEN /\ results' = contributionResults(startingPosition, Zero, Zero, Zero)
              /\ pc' = "done"
              /\ UNCHANGED <<low, high, result, found, probes>>
         ELSE /\ low' = 0 /\ high' = MaxMonths /\ result' = MaxMonths /\ found' = FALSE
              /\ probes' = 0
              /\ pc' = "search"
              /\ UNCHANGED results
  /\ UNCHANGED <<mode, inputs, timelineVars, chartVars, projectionVars, pageVars>>

\* ContributionProbe with the strict comparison total > target
ContributionProbe_Strict ==
  /\ pc = "search" /\ low <= high
  /\ LET mid == (low + high) \div 2
         projection == projectPortfolio(inputs, mid)
     IN  IF Gt(projection.total, projection.target)
         THEN found' = TRUE /\ result' = mid /\ high' = mid - 1 /\ UNCHANGED low
         ELSE low' = mid + 1 /\ UNCHANGED <<found, result, high>>
  /\ probes' = probes + 1
  /\ UNCHANGED <<mode, inputs, pc, results, timelineVars, chartVars, projectionVars, pageVars>>

\* one iteration of the loop of lines 1034-1045
ContributionProbe ==
  /\ pc = "search" /\ low <= high
  /\ LET mid == (low + high) \div 2
         projection == projectPortfolio(inputs, mid)
     IN  IF Ge(projection.total, projection.target)
         THEN found' = TRUE /\ result' = mid /\ high' = mid - 1 /\ UNCHANGED low
         ELSE low' = mid + 1 /\ UNCHANGED <<found, result, high>>
  /\ probes' = probes + 1
  /\ UNCHANGED <<mode, inputs, pc, results, timelineVars, chartVars, projectionVars, pageVars>>

\* ContributionFinish without the found flag, as calculateTimelineToFI returns
ContributionFinish_NoFlag ==
  /\ pc = "search" /\ low > high
  /\ LET completion == projectPortfolio(inputs, result)
     IN  results' = contributionResults(completion, N(result \div 12), N(result % 12),
                                        N(result))
  /\ pc' = "done"
  /\ UNCHANGED <<mode, inputs, low, high, result, found, probes, timelineVars, chartVars, projectionVars, pageVars>>

\* lines 1047-1064
ContributionFinish ==
  /\ pc = "search" /\ low > high
  /\ LET completion == projectPortfolio(inputs, result)
         yearsToFI == N(result \div 12)
         monthsToFI == N(result % 12)
     IN  results' = contributionResults(completion,
                                        IF found THEN yearsToFI ELSE Infinity,
                                        IF found THEN monthsToFI ELSE Zero,
                                        IF found THEN N(result) ELSE Infinity)
  /\ pc' = "done"
  /\ UNCHANGED <<mode, inputs, low, high, result, found, probes, timelineVars, chartVars, projectionVars, pageVars>>

----------------------------------------------------------------------------
(* calculateTimelineToFI *)

\* lines 777-798
TimelineCall ==
  /\ tpc = "call"
  /\ IF args.monthlySavings = Zero
     THEN /\ ret' = closedFormTimeline(args.currentSavings, args.targetAmount,
                                       MonthlyRate(args.annualRate))
          /\ tpc' = "done"
          /\ UNCHANGED <<tlow, thigh, tresult, tprobes>>
     ELSE /\ tlow' = 0 /\ thigh' = MaxMonths /\ tresult' = MaxMonths /\ tprobes' = 0
          /\ tpc' = "search"
          /\ UNCHANGED ret
  /\ UNCHANGED <<args, engineVars, chartVars, projectionVars, pageVars>>

\* TimelineProbe keeping the probed month in the interval when it falls short
TimelineProbe_KeepsMid ==
  /\ tpc = "search" /\ tlow <= thigh
  /\ LET mid == (tlow + thigh) \div 2
         futureValue == timelineFutureValue(args, mid)
     IN  IF Ge(futureValue, args.targetAmount)
         THEN tresult' = mid /\ thigh' = mid - 1 /\ UNCHANGED tlow
         ELSE tlow' = (IF mid > tlow THEN mid ELSE mid + 1) /\ UNCHANGED <<tresult, thigh>>
  /\ tprobes' = tprobes + 1
  /\ UNCHANGED <<args, tpc, ret, engineVars, chartVars, projectionVars, pageVars>>

\* one iteration of the loop of lines 800-812
TimelineProbe ==
  /\ tpc = "search" /\ tlow <= thigh
  /\ LET mid == (tlow + thigh) \div 2
         futureValue == timelineFutureValue(args, mid)
     IN  IF Ge(futureValue, args.targetAmount)
         THEN tresult' = mid /\ thigh' = mid - 1 /\ UNCHANGED tlow
         ELSE tlow' = mid + 1 /\ UNCHANGED <<tresult, thigh>>
  /\ tprobes' = tprobes + 1
  /\ UNCHANGED <<args, tpc, ret, engineVars, chartVars, projectionVars, pageVars>>

\* lines 814-818
TimelineFinish ==
  /\ tpc = "search" /\ tlow > thigh
  /\ ret' = TimelineReturn(N(tresult \div 12), N(tresult % 12), N(tresult))
  /\ tpc' = "done"
  /\ UNCHANGED <<args, tlow, thigh, tresult, tprobes, engineVars, chartVars, projectionVars, pageVars>>

----------------------------------------------------------------------------
(* TimelineChart *)

\* part_001 line 26: the chart of the results, or of the inputs alone
GenerateTimeline ==
  /\ pc = "done"
  /\ \E r \in {results, NoResults} :
       /\ chartResults' = r
       /\ chart' = generateTimelineData(inputs, mode, r)
  /\ pc' = "charted"
  /\ UNCHANGED <<mode, inputs, low, high, result, found, probes, results, timelineVars,
                 projectionVars, pageVars>>

Next ==
  \/ GoalBased
  \/ TimeBased
  \/ ContributionStart
  \/ ContributionProbe
  \/ ContributionFinish
  \/ TimelineCall
  \/ TimelineProbe
  \/ TimelineFinish
  \/ GenerateTimeline

Spec == Init /\ [][Next]_vars

----------------------------------------------------------------------------
(* projectPortfolio followed month by month *)

ProjectionInit ==
  /\ Fresh
  /\ mode = "contribution-based" /\ inputs \in ProjectionInputs /\ pc = "idle"
  /\ args = NoArgs /\ tpc = "idle"
  /\ monthsFromNow = 0 /\ projected = projectPortfolio(inputs, 0)
  /\ activeView = "about" /\ formData = DEFAULT_DATA /\ remembered = NoCall

\* the last month followed: the ceiling of the search, or as long as a
\* shrinking pool stays exact
LastMonth ==
  IF ShrinkingRate \in {inputs.annualReturn, inputs.savingsInterestRate}
  THEN ProjectionMonths
  ELSE MaxMonths

\* lines 988-1009 called for the next month
ProjectMonth ==
  /\ monthsFromNow < LastMonth
  /\ monthsFromNow' = monthsFromNow + 1
  /\ projected' = projectPortfolio(inputs, monthsFromNow + 1)
  /\ UNCHANGED <<engineVars, timelineVars, chartVars, pageVars>>

ProjectionNext == ProjectMonth

ProjectionSpec == ProjectionInit /\ [][ProjectionNext]_vars

----------------------------------------------------------------------------
(* Home page *)

HomeInit ==
  /\ Fresh
  /\ mode = "goal-based" /\ inputs = NoInputs /\ pc = "idle"
  /\ args = NoArgs /\ tpc = "idle"
  /\ monthsFromNow = 0 /\ projected = NoPosition
  /\ activeView = "goal" /\ formData = DEFAULT_DATA /\ remembered = NoCall

\* the page is rendered and no handler is running
Rendered == pc \in {"idle", "charted"}

\* part_003 lines 279-287 and part_001 lines 25-26: with results and a mode,
\* the page shows the results and the chart of the form's inputs
TimelineShown(view, data) ==
  IF results # NoResults /\ ModeOf(view) # "none"
  THEN generateTimelineData(data, ModeOf(view), results)
  ELSE <<>>

\* part_003 lines 135-138 and the render that follows
SelectView ==
  /\ Rendered
  /\ \E view \in Views :
       /\ activeView' = view
       /\ chart' = TimelineShown(view, formData)
  /\ chartResults' = results
  /\ UNCHANGED <<formData, remembered, engineVars, timelineVars, projectionVars>>

\* FinanceInputForm lines 140-143, through onChange = setFormData, and the
\* render that follows
EditForm ==
  /\ Rendered
  /\ ModeOf(activeView) # "none"
  /\ \E field \in EditedFields : \E value \in EditedValues(field) :
       /\ formData' = [formData EXCEPT ![field] = value]
       /\ chart' = TimelineShown(activeView, formData')
  /\ chartResults' = results
  /\ UNCHANGED <<activeView, remembered, engineVars, timelineVars, projectionVars>>

\* part_003 lines 104-112: the call of calculateFinancialIndependence starts;
\* the actions of the engine run it. One call, with the chart shown after
\* it, may be kept in remembered, to compare later calls with.
HandleCalculate ==
  /\ Rendered
  /\ ModeOf(activeView) # "none"
  /\ mode' = ModeOf(activeView)
  /\ inputs' = formData
  /\ pc' = "call"
  /\ remembered' \in {remembered} \cup
       (IF pc = "charted" /\ remembered = NoCall
        THEN {[mode |-> mode, inputs |-> inputs, results |-> results,
               chartMode |-> ModeOf(activeView), chartInputs |-> formData,
               chart |-> chart]}
        ELSE {})
  /\ UNCHANGED <<low, high, result, found, probes, results, activeView, formData,
                 timelineVars, chartVars, projectionVars>>

\* part_003 line 113 and the render that follows: setResults shows the
\* results and the chart
ShowResults ==
  /\ pc = "done"
  /\ chartResults' = results
  /\ chart' = TimelineShown(activeView, formData)
  /\ pc' = "charted"
  /\ UNCHANGED <<mode, inputs, low, high, result, found, probes, results, timelineVars,
                 projectionVars, pageVars>>

HomeNext ==
  \/ SelectView
  \/ EditForm
  \/ HandleCalculate
  \/ GoalBased
  \/ TimeBased
  \/ ContributionStart
  \/ ContributionProbe
  \/ ContributionFinish
  \/ ShowResults

HomeSpec == HomeInit /\ [][HomeNext]_vars

----------------------------------------------------------------------------
(* Properties of the root-finder *)

\* total >= target at month m of the contribution-based projection
Reached(m) ==
  LET projection == projectPortfolio(inputs, m)
  IN  Ge(projection.total, projection.target)

\* futureValue >= targetAmount at month m of calculateTimelineToFI's search
TimelineReached(m) == Ge(timelineFutureValue(args, m), args.targetAmount)

ContributionDone == pc = "done" /\ mode = "contribution-based"

RECURSIVE FirstReachedIn(_, _)
\* the first month of lo..hi at which total >= target, hi + 1 if there is none
FirstReachedIn(lo, hi) ==
  IF lo > hi THEN lo
  ELSE IF lo = hi THEN (IF Reached(lo) THEN lo ELSE hi + 1)
  ELSE LET mid == (lo + hi) \div 2
           left == FirstReachedIn(lo, mid)
       IN  IF left <= mid THEN left ELSE FirstReachedIn(mid + 1, hi)

FirstReached(m) == FirstReachedIn(m, MaxMonths)

\* total >= target at every month from m to MaxMonths
ReachedFrom(m) == \A n \in m..MaxMonths : Reached(n)

\* C1: contribution-based mode, for a probe whose predicate total >= target is
\* non-decreasing in the month, false at month 0 and true at some month of
\* 0..1200: totalMonthsToFI is the smallest month at which it is true.
C1_MinimalMonth ==
  (ContributionDone /\ ~Reached(0) /\ Reached(MaxMonths))
    => LET first == FirstReached(0)
       IN  ReachedFrom(first) => results.totalMonthsToFI = N(first)

C1_Witness ==
  /\ ContributionDone
  /\ results.totalMonthsToFI = N(399)
  /\ FirstReached(0) = 399
  /\ ReachedFrom(399)

\* C2: a month count m > 0 that a binary search returns as found satisfies
\* total >= target at month m and not at month m - 1; equality counts as
\* reached. calculateTimelineToFI has no found flag: its result counts as
\* found when it is below 1200 or the target is reached at month 1200.
C2_FoundMonthIsFirstCrossing ==
  /\ (ContributionDone /\ found /\ result > 0)
       => /\ results.totalMonthsToFI = N(result)
          /\ Reached(result)
          /\ ~Reached(result - 1)
  /\ (/\ tpc = "done" /\ args.monthlySavings # Zero
      /\ tresult > 0
      /\ (tresult < MaxMonths \/ TimelineReached(MaxMonths)))
       => /\ ret.totalMonths = N(tresult)
          /\ TimelineReached(tresult)
          /\ ~TimelineReached(tresult - 1)

C2_Witness ==
  /\ ContributionDone /\ found /\ result > 0
  /\ results.futureValueOfCurrentSavings = results.targetAtCompletion
  /\ results.totalMonthsToFI = N(result)

\* C3: contribution-based mode, when the search finds no month: yearsToFI and
\* totalMonthsToFI are infinite, and the totals and the target of the result
\* are those of the projection at month 1200.
C3_UnreachedReturnsCeilingProjection ==
  (ContributionDone /\ ~Reached(0) /\ ~found)
    => LET ceiling == projectPortfolio(inputs, MaxMonths)
       IN  /\ results.yearsToFI = Infinity
           /\ results.totalMonthsToFI = Infinity
           /\ results.totalFutureSavings = ceiling.savingsFutureValue
           /\ results.totalFutureInvestment = ceiling.investmentsFutureValue
           /\ results.futureValueOfCurrentSavings = ceiling.total
           /\ results.targetAtCompletion = ceiling.target

C3_Witness ==
  /\ ContributionDone /\ ~Reached(0) /\ ~found
  /\ results.totalMonthsToFI = Infinity
  /\ results.totalFutureSavings = N(1203)
  /\ results.targetAtCompletion = N(2401)

----------------------------------------------------------------------------
(* Properties of calculateTimelineToFI *)

TimelineSearched == tpc = "done" /\ args.monthlySavings # Zero

\* C4: calculateTimelineToFI with a non-zero contribution whose probe fails at
\* every month of 0..1200 (and whose principal and 1200 contributions stay
\* below the target) returns an unbounded or undefined totalMonths, not the
\* finite 1200 that a target first reached at month 1200 returns.
C4_UnreachedIsUnbounded ==
  (/\ TimelineSearched
   /\ \A m \in 0..MaxMonths : ~TimelineReached(m)
   /\ ~Ge(Add(args.currentSavings, Mul(args.monthlySavings, N(MaxMonths))),
          args.targetAmount))
    => ~IsFinite(ret.totalMonths)

\* C5: every finite month count returned (calculateTimelineToFI on both paths,
\* contribution-based totalMonthsToFI) is an integer of 0..1200.
C5_FiniteMonthsWithinCeiling ==
  /\ (tpc = "done" /\ IsFinite(ret.totalMonths))
       => IsInteger(ret.totalMonths) /\ ret.totalMonths.n \in 0..MaxMonths
  /\ (ContributionDone /\ IsFinite(results.totalMonthsToFI))
       => IsInteger(results.totalMonthsToFI)
          /\ results.totalMonthsToFI.n \in 0..MaxMonths

----------------------------------------------------------------------------
(* Properties of the mode strategies *)

\* a === b
Eq(a, b) == Ge(a, b) /\ Ge(b, a)

GoalDone == pc = "done" /\ mode = "goal-based"
TimeDone == pc = "done" /\ mode = "time-based"

\* the amount the contributions have to provide is positive
ContributionNeeded ==
  Gt(Sub(results.inflationAdjustedFINumber, results.futureValueOfCurrentSavings), Zero)

\* C6: wherever an annuity future value over n months is formed, a monthly
\* rate of exactly 0 makes it contribution x n: in goal-based and time-based
\* results, in the contribution-based projection and in the value
\* calculateTimelineToFI's search probes.
C6_ZeroRateAnnuityIsLinear ==
  /\ ((GoalDone \/ TimeDone) /\ ContributionNeeded
        /\ OrZero(inputs.savingsInterestRate) = Zero)
       => Eq(results.totalFutureSavings,
             Add(inputs.currentSavings,
                 Mul(results.suggestedMonthlySavings, N(inputs.timeHorizon * 12))))
  /\ ((GoalDone \/ TimeDone) /\ ContributionNeeded /\ inputs.annualReturn = Zero)
       => Eq(results.totalFutureInvestment,
             Add(OrZero(inputs.currentInvestments),
                 Mul(results.suggestedMonthlyInvestment, N(inputs.timeHorizon * 12))))
  /\ (ContributionDone /\ OrZero(inputs.savingsInterestRate) = Zero
        /\ IsFinite(results.totalMonthsToFI))
       => Eq(results.totalFutureSavings,
             Add(inputs.currentSavings,
                 Mul(OrZero(inputs.monthlySavings), results.totalMonthsToFI)))
  /\ (TimelineSearched /\ args.annualRate = Zero)
       => Eq(timelineFutureValue(args, tresult),
             Add(args.currentSavings, Mul(args.monthlySavings, N(tresult))))

\* C7: goal-based mode with no current assets and both rates 0 requires
\* targetFINumber / (timeHorizon x 12) a month.
C7_ZeroRatesRequiredIsTargetOverMonths ==
  (/\ GoalDone
   /\ inputs.currentSavings = Zero /\ OrZero(inputs.currentInvestments) = Zero
   /\ inputs.annualReturn = Zero /\ OrZero(inputs.savingsInterestRate) = Zero
   /\ Gt(inputs.targetFINumber, Zero))
    => Eq(results.requiredMonthlySavings,
          Div(inputs.targetFINumber, N(inputs.timeHorizon * 12)))

\* the future value of the two pools at the horizon
PoolsAtHorizon ==
  Add(calculateFutureValue(inputs.currentSavings, OrZero(inputs.savingsInterestRate),
                           inputs.timeHorizon),
      calculateFutureValue(OrZero(inputs.currentInvestments), inputs.annualReturn,
                           inputs.timeHorizon))

\* C8: goal-based mode: when the pools' future value at the horizon is at least
\* the target, the required and suggested contributions and the time to goal
\* are all 0; otherwise the time to goal is the whole horizon.
C8_GoalBasedTimeToGoal ==
  GoalDone =>
    IF Ge(PoolsAtHorizon, inputs.targetFINumber)
    THEN /\ results.requiredMonthlySavings = Zero
         /\ results.suggestedMonthlySavings = Zero
         /\ results.suggestedMonthlyInvestment = Zero
         /\ results.yearsToFI = Zero
         /\ results.monthsToFI = Zero
         /\ results.totalMonthsToFI = Zero
    ELSE /\ results.yearsToFI = N(inputs.timeHorizon)
         /\ results.monthsToFI = Zero
         /\ results.totalMonthsToFI = N(12 * inputs.timeHorizon)

C8_Witness ==
  /\ GoalDone
  /\ inputs.timeHorizon = 2
  /\ ~Ge(PoolsAtHorizon, inputs.targetFINumber)
  /\ Gt(PoolsAtHorizon, Zero)
  /\ results.requiredMonthlySavings.k = "fin"
  /\ results.totalMonthsToFI = N(24)

C11_SuggestedSumIsRequired ==
  pc = "done" =>
    Eq(Add(results.suggestedMonthlySavings, results.suggestedMonthlyInvestment),
       results.requiredMonthlySavings)

\* monthlyExpenses x 12 x 25
ExpensesBaseline == Mul(inputs.monthlyExpenses, N(300))

\* C12: time-based mode: baseFINumber is monthlyExpenses x 12 x 25 and stays
\* the same when any other input field changes; calculatedFINumber and
\* inflationAdjustedFINumber are both base x (1 + inflationRate)^timeHorizon.
C12_TimeBasedBaseline ==
  TimeDone =>
    /\ results.baseFINumber = ExpensesBaseline
    /\ \A v \in Nums({0, 3, 7}) :
         /\ calculateTimeBasedStrategy([inputs EXCEPT !.currentIncome = v]).baseFINumber
              = results.baseFINumber
         /\ calculateTimeBasedStrategy([inputs EXCEPT !.currentSavings = v]).baseFINumber
              = results.baseFINumber
         /\ calculateTimeBasedStrategy([inputs EXCEPT !.currentInvestments = v]).baseFINumber
              = results.baseFINumber
         /\ calculateTimeBasedStrategy([inputs EXCEPT !.targetFINumber = v]).baseFINumber
              = results.baseFINumber
         /\ calculateTimeBasedStrategy([inputs EXCEPT !.monthlySavings = v]).baseFINumber
              = results.baseFINumber
         /\ calculateTimeBasedStrategy([inputs EXCEPT !.monthlyInvestment = v]).baseFINumber
              = results.baseFINumber
    /\ \A v \in Nums({0, 1, 12}) :
         /\ calculateTimeBasedStrategy([inputs EXCEPT !.annualReturn = v]).baseFINumber
              = results.baseFINumber
         /\ calculateTimeBasedStrategy([inputs EXCEPT !.savingsInterestRate = v]).baseFINumber
              = results.baseFINumber
         /\ calculateTimeBasedStrategy([inputs EXCEPT !.inflationRate = v]).baseFINumber
              = results.baseFINumber
    /\ \A h \in 1..3 :
         calculateTimeBasedStrategy([inputs EXCEPT !.timeHorizon = h]).baseFINumber
           = results.baseFINumber
    /\ results.calculatedFINumber
         = Mul(ExpensesBaseline, Pow(Add(One, inputs.inflationRate), inputs.timeHorizon))
    /\ results.inflationAdjustedFINumber = results.calculatedFINumber

C12_Witness ==
  /\ TimeDone
  /\ inputs.inflationRate = One /\ inputs.timeHorizon = 2
  /\ results.baseFINumber = N(300)
  /\ results.calculatedFINumber = N(1200)
  /\ results.inflationAdjustedFINumber = N(1200)

\* goal-based mode run on the inputs with the inflated baseline as its target
GoalOnInflatedBaseline ==
  calculateGoalBased(
    [inputs EXCEPT !.targetFINumber =
       Mul(ExpensesBaseline, Pow(Add(One, inputs.inflationRate), inputs.timeHorizon))])

\* C13: the time-based requiredMonthlySavings, suggested amounts and total
\* future values are the values goal-based mode returns for the same inputs
\* with targetFINumber replaced by monthlyExpenses x 12 x 25 x
\* (1 + inflationRate)^timeHorizon (an undefined number on one side matches
\* the same on the other); the required contribution is 0 when the gap is <= 0.
C13_TimeBasedSolvesAsGoalBased ==
  TimeDone =>
    /\ results.requiredMonthlySavings = GoalOnInflatedBaseline.requiredMonthlySavings
    /\ results.suggestedMonthlySavings = GoalOnInflatedBaseline.suggestedMonthlySavings
    /\ results.suggestedMonthlyInvestment
         = GoalOnInflatedBaseline.suggestedMonthlyInvestment
    /\ results.totalFutureSavings = GoalOnInflatedBaseline.totalFutureSavings
    /\ results.totalFutureInvestment = GoalOnInflatedBaseline.totalFutureInvestment
    /\ Le(Sub(Mul(ExpensesBaseline,
                  Pow(Add(One, inputs.inflationRate), inputs.timeHorizon)),
              PoolsAtHorizon), Zero)
         => results.requiredMonthlySavings = Zero

C13_Witness ==
  /\ TimeDone
  /\ inputs.inflationRate = One
  /\ results.requiredMonthlySavings.k = "fin"
  /\ results.requiredMonthlySavings # Zero
  /\ results.requiredMonthlySavings = GoalOnInflatedBaseline.requiredMonthlySavings
  /\ results.totalFutureInvestment = GoalOnInflatedBaseline.totalFutureInvestment

----------------------------------------------------------------------------
(* Properties of contribution-based mode and of the result record *)

\* the base target of contribution-based mode for a given targetFINumber
BaseTargetFor(target) ==
  IF target = undefined \/ target = Zero THEN ExpensesBaseline ELSE target

\* C14: contribution-based mode: baseFINumber, which is also the target of the
\* probe at month 0, is targetFINumber when that is non-zero and
\* monthlyExpenses x 12 x 25 when targetFINumber is absent or 0.
C14_ContributionBaseTarget ==
  ContributionDone =>
    /\ results.baseFINumber = BaseTargetFor(inputs.targetFINumber)
    /\ projectPortfolio(inputs, 0).target = BaseTargetFor(inputs.targetFINumber)
    /\ \A t \in {undefined, Zero, N(7)} :
         LET position == projectPortfolio([inputs EXCEPT !.targetFINumber = t], 0)
         IN  position.baseTarget = BaseTargetFor(t) /\ position.target = BaseTargetFor(t)

C14_Witness ==
  /\ ContributionDone
  /\ inputs.targetFINumber = Zero
  /\ inputs.monthlyExpenses = One
  /\ results.baseFINumber = N(300)

\* current assets cover the base target at month 0
CoveredAtStart ==
  Ge(Add(inputs.currentSavings, OrZero(inputs.currentInvestments)),
     BaseTargetFor(inputs.targetFINumber))

\* C15: contribution-based mode: when currentSavings + currentInvestments is
\* at least the base target at month 0 the result has yearsToFI = monthsToFI =
\* totalMonthsToFI = 0, the search has not run, and requiredMonthlySavings is
\* monthlySavings + monthlyInvestment.
C15_ImmediateWhenCovered ==
  (ContributionDone /\ CoveredAtStart) =>
    /\ results.yearsToFI = Zero
    /\ results.monthsToFI = Zero
    /\ results.totalMonthsToFI = Zero
    /\ low = 0 /\ high = 0 /\ result = 0 /\ ~found
    /\ results.requiredMonthlySavings
         = Add(OrZero(inputs.monthlySavings), OrZero(inputs.monthlyInvestment))

C15_Witness ==
  /\ ContributionDone /\ CoveredAtStart
  /\ inputs.currentSavings = N(3) /\ inputs.currentInvestments = N(2)
  /\ inputs.monthlySavings = N(2) /\ inputs.monthlyInvestment = One
  /\ results.totalMonthsToFI = Zero
  /\ results.requiredMonthlySavings = N(3)

Present(field) == field # undefined

\* C16: a goal-based result has none of calculatedFINumber, baseFINumber and
\* targetAtCompletion; a time-based result has calculatedFINumber and
\* baseFINumber and no targetAtCompletion; a contribution-based result, on its
\* immediate and its searched path, has baseFINumber and targetAtCompletion
\* and no calculatedFINumber.
C16_OptionalFieldsPerMode ==
  /\ GoalDone =>
       /\ ~Present(results.calculatedFINumber)
       /\ ~Present(results.baseFINumber)
       /\ ~Present(results.targetAtCompletion)
  /\ TimeDone =>
       /\ Present(results.calculatedFINumber)
       /\ Present(results.baseFINumber)
       /\ ~Present(results.targetAtCompletion)
  /\ ContributionDone =>
       /\ ~Present(results.calculatedFINumber)
       /\ Present(results.baseFINumber)
       /\ Present(results.targetAtCompletion)

C16_Witness ==
  /\ ContributionDone /\ found
  /\ Present(results.baseFINumber)
  /\ Present(results.targetAtCompletion)
  /\ ~Present(results.calculatedFINumber)

----------------------------------------------------------------------------
(* Properties of generateTimelineData *)

Charted == pc = "charted"
ResultsPassed == chartResults # NoResults

\* C17: generateTimelineData returns, for a horizon H >= 1, exactly H + 1
\* samples whose years are 0, 1, ..., H in that order; in goal-based and
\* time-based mode H is timeHorizon.
C17_OneSamplePerYear ==
  Charted =>
    /\ Len(chart) - 1 >= 1
    /\ \A i \in 1..Len(chart) : chart[i].year = i - 1
    /\ mode # "contribution-based" => Len(chart) - 1 = inputs.timeHorizon

C17_Witness ==
  /\ Charted /\ mode = "goal-based" /\ ResultsPassed
  /\ results.yearsToFI = Zero
  /\ inputs.timeHorizon = 2
  /\ Len(chart) = 3
  /\ chart[1].year = 0 /\ chart[2].year = 1 /\ chart[3].year = 2

\* C18: contribution-based mode with a result whose time to goal is finite:
\* the year of the last sample is max(ceil(totalMonthsToFI / 12), timeHorizon),
\* so that the series covers the month at which the goal is reached.
C18_ContributionHorizonCoversGoal ==
  (/\ Charted /\ mode = "contribution-based" /\ ResultsPassed
   /\ IsFinite(results.totalMonthsToFI))
    => /\ chart[Len(chart)].year
            = Max(Ceil(Div(results.totalMonthsToFI, N(12))).n, inputs.timeHorizon)
       /\ Ge(N(12 * chart[Len(chart)].year), results.totalMonthsToFI)

\* C19: time-based mode: the target of the sample of year y is
\* monthlyExpenses x 12 x 25 x (1 + inflationRate)^y, whether or not a prior
\* result is passed.
C19_TimeBasedTargetSeries ==
  (Charted /\ mode = "time-based") =>
    \A i \in 1..Len(chart) :
      chart[i].target = Mul(ExpensesBaseline, Pow(Add(One, inputs.inflationRate), i - 1))

\* the monthly contributions the series is drawn with: those of the inputs in
\* contribution-based mode, else the suggested ones of the results passed
ChartSavingsContribution ==
  IF mode = "contribution-based" THEN OrZero(inputs.monthlySavings)
  ELSE IF ResultsPassed THEN OrZero(chartResults.suggestedMonthlySavings)
  ELSE Zero

ChartInvestmentContribution ==
  IF mode = "contribution-based" THEN OrZero(inputs.monthlyInvestment)
  ELSE IF ResultsPassed THEN OrZero(chartResults.suggestedMonthlyInvestment)
  ELSE Zero

RECURSIVE StepMonths(_, _, _, _)
\* the pool after so many steps pool := pool x (1 + annualRate / 12) + contribution
StepMonths(pool, annualRate, contribution, steps) ==
  IF steps = 0 THEN pool
  ELSE Add(Mul(StepMonths(pool, annualRate, contribution, steps - 1),
               Add(One, Div(annualRate, N(12)))),
           contribution)

RECURSIVE PoolsByYear(_, _, _, _)
\* the unrounded pool at the years 0..years, each 12 steps after the one before
PoolsByYear(pool, annualRate, contribution, years) ==
  IF years = 0 THEN <<pool>>
  ELSE LET before == PoolsByYear(pool, annualRate, contribution, years - 1)
       IN  Append(before, StepMonths(before[years], annualRate, contribution, 12))

\* C20: the sample of year 0 has the assets round(currentSavings +
\* currentInvestments); the pools of each later sample come from the unrounded
\* pools of the year before by 12 steps pool := pool x (1 + annualRate / 12) +
\* monthlyContribution, the savings pool at savingsInterestRate and the
\* investment pool at annualReturn; the assets of a sample are the sum of the
\* pools rounded to the nearest whole unit, and its target is not rounded.
C20_TimelineAssetsAndTarget ==
  Charted =>
    LET saved == PoolsByYear(inputs.currentSavings, OrZero(inputs.savingsInterestRate),
                             ChartSavingsContribution, Len(chart) - 1)
        invested == PoolsByYear(OrZero(inputs.currentInvestments), inputs.annualReturn,
                                ChartInvestmentContribution, Len(chart) - 1)
    IN  /\ chart[1].savings
             = Round(Add(inputs.currentSavings, OrZero(inputs.currentInvestments)))
        /\ \A i \in 1..Len(chart) :
             /\ chart[i].savings = Round(Add(saved[i], invested[i]))
             /\ chart[i].target
                  = Mul(timelineTargetAmount(inputs, mode, chartResults),
                        Pow(Add(One, inputs.inflationRate), i - 1))

C20_Witness ==
  /\ Charted /\ mode = "goal-based" /\ ResultsPassed
  /\ inputs.annualReturn = N(12) /\ inputs.savingsInterestRate = N(12)
  /\ results.suggestedMonthlySavings = Fin(11, 27300)
  /\ Len(chart) = 2
  /\ chart[1].savings = Zero
  /\ chart[2].savings = N(6)
  /\ chart[2].target = Fin(11, 2)

----------------------------------------------------------------------------
(* Properties of the results as a whole *)

ResultFields == DOMAIN NoResults
TimeToGoalFields == {"yearsToFI", "totalMonthsToFI"}

\* C22: for finite inputs with rates above -1 and timeHorizon >= 1 every
\* numeric field of a result is a defined number: never NaN, and infinite
\* only in the time-to-goal fields of a contribution-based search that did
\* not reach the target.
C22_ResultsAreDefinedNumbers ==
  pc = "done" =>
    /\ \A f \in ResultFields : results[f].k # "nan"
    /\ \A f \in ResultFields \ TimeToGoalFields : results[f].k # "inf"
    /\ \A f \in TimeToGoalFields :
         results[f].k = "inf" => (ContributionDone /\ ~found)

TimelineClosedForm == tpc = "done" /\ args.monthlySavings = Zero

\* the value of currentSavings after n months at the monthly factor of the
\* rate: 2^n at the annual rate 12, 2^(n / DoublingMonths) at the slow rate,
\* for n a multiple of DoublingMonths
GrownSavings(n) ==
  IF args.annualRate = SlowRate
  THEN Mul(args.currentSavings, Pow(N(2), n \div DoublingMonths))
  ELSE Mul(args.currentSavings, Pow(Add(One, Div(args.annualRate, N(12))), n))

\* the months at which the model knows the grown savings: every month of a
\* year at the annual rate 12, the doubling months at the slow rate, whose
\* targets are reached exactly at one of them
ExactMonths ==
  IF args.annualRate = SlowRate
  THEN {n \in 0..(3 * DoublingMonths) : n % DoublingMonths = 0}
  ELSE 0..12

C26_UnreachedOnlyIfNeverReached ==
  (ContributionDone /\ results.totalMonthsToFI = Infinity)
    => FirstReached(0) > MaxMonths

\* the years, months and total months of a time to target agree
TimeToTargetAgrees(years, months, total) ==
  IsFinite(total) =>
    /\ IsInteger(months) /\ months.n \in 0..11
    /\ Eq(total, Add(Mul(N(12), years), months))

\* C27: every time-to-target record with a finite total, in the results of the
\* three modes and in the return value of calculateTimelineToFI, has
\* totalMonths = 12 x years + months with months an integer of 0..11.
C27_TotalIsYearsAndMonths ==
  /\ pc = "done" =>
       TimeToTargetAgrees(results.yearsToFI, results.monthsToFI, results.totalMonthsToFI)
  /\ tpc = "done" => TimeToTargetAgrees(ret.years, ret.months, ret.totalMonths)

\* generateTimelineData has been called with the inputs and their result
ChartedWithResults == Charted /\ ResultsPassed

\* C28: goal-based and time-based mode: the assets of the sample of year
\* timeHorizon, drawn from the inputs and the result of the mode, are
\* round(totalFutureSavings + totalFutureInvestment).
C28_TimelineMeetsProjectionAtHorizon ==
  (ChartedWithResults /\ mode # "contribution-based") =>
    Eq(chart[inputs.timeHorizon + 1].savings,
       Round(Add(results.totalFutureSavings, results.totalFutureInvestment)))

\* C29: goal-based mode: the target of the sample of year timeHorizon is the
\* inflationAdjustedFINumber of the result, whatever the inflationRate.
C29_GoalTimelineTargetIsSolvedTarget ==
  (Charted /\ mode = "goal-based") =>
    Eq(chart[inputs.timeHorizon + 1].target, results.inflationAdjustedFINumber)

----------------------------------------------------------------------------
(* Properties of the binary searches *)

RECURSIVE Halved(_, _)
\* width halved so many times, rounding down
Halved(width, times) == IF times = 0 THEN width ELSE Halved(width \div 2, times - 1)

\* the months of the interval 0..1200
SearchWidth == MaxMonths + 1

\* C24: the binary search over 0..1200 of calculateContributionTimeline and of
\* calculateTimelineToFI makes one projection per iteration, each iteration
\* at least halves the months still to search whatever the probe finds, so
\* the loop ends after at most 11 iterations.
C24_SearchEndsWithinElevenProbes ==
  /\ pc = "search" => high - low + 1 <= Halved(SearchWidth, probes)
  /\ tpc = "search" => thigh - tlow + 1 <= Halved(SearchWidth, tprobes)
  /\ probes <= 11 /\ tprobes <= 11
  /\ Halved(SearchWidth, 11) = 0
  /\ (ContributionDone /\ ~Reached(0)) => probes \in 1..11
  /\ TimelineSearched => tprobes \in 1..11

C24_Witness ==
  /\ TimelineSearched
  /\ tprobes = 11
  /\ tlow > thigh


----------------------------------------------------------------------------
(* Properties of the projection followed month by month *)

\* a month of the projection has been computed after the one before it
Projecting == pc = "idle" /\ tpc = "idle" /\ monthsFromNow \in 1..MaxMonths

\* the total of the month before the one the projection stands at
TotalBefore == projectPortfolio(inputs, monthsFromNow - 1).total

\* C23: for every input of the data model, rates down to -1 included, the
\* projected total of month m + 1 is at least the projected total of month m,
\* for m in 0..1199.
C23_ProjectionNeverDecreases ==
  Projecting => Ge(projected.total, TotalBefore)


----------------------------------------------------------------------------
(* Properties of the Home page *)

\* part_003 lines 279-287: a results panel and a timeline are displayed
Displayed ==
  /\ pc = "charted"
  /\ results # NoResults
  /\ ModeOf(activeView) # "none"

\* C30: whenever a results panel and a timeline are displayed, the results
\* were computed by the strategy of the active view's mode, from the form
\* inputs that are passed to generateTimelineData.
C30_DisplayedResultsAreCurrent ==
  Displayed => /\ mode = ModeOf(activeView)
               /\ inputs = formData
               /\ chartResults = results

\* the call just returned and displayed repeats the remembered call
SameCall ==
  /\ Displayed
  /\ remembered # NoCall
  /\ remembered.mode = mode
  /\ remembered.inputs = inputs

\* the chart displayed comes from the arguments of the remembered chart
SameChart ==
  /\ Displayed
  /\ remembered # NoCall
  /\ remembered.chartMode = ModeOf(activeView)
  /\ remembered.chartInputs = formData
  /\ remembered.results = results

\* a call is running
Running == pc \in {"call", "search"}

\* a step of a running call writes neither its input record, nor the
\* caller's record, nor a result returned before
WritesNothingElse ==
  Running => /\ inputs' = inputs
             /\ formData' = formData
             /\ remembered' = remembered

====
